---- MODULE Spec2Model ----
(***************************************************************************)
(* Verification model of scion-time's clock discipline core                *)
(* (core/sync/sync.go) and of its NTP-over-SCION client                    *)
(* (go/driver/ntp/scion.go).                                               *)
(*                                                                         *)
(* Durations are whole nanoseconds (Go's time.Duration).  float64 values   *)
(* that the code derives from the impact factors are kept as exact         *)
(* rationals <<numerator, denominator>>.  Intervals and timeouts of the    *)
(* two tiers are in seconds.                                               *)
(***************************************************************************)
EXTENDS Integers, Sequences, FiniteSets, TLC

(***************************************************************************)
(* Bounds of the model.                                                    *)
(***************************************************************************)
MaxRefClocks == 2
MaxNetClocks == 2
MaxRegistrations == 2
MaxTime == 3

(***************************************************************************)
(* Input sets: what reference clocks, network clocks and the local clock's *)
(* MaxDrift may report.                                                    *)
(***************************************************************************)
RefOffsetValues == {-7, 0, 1}
NetOffsetValues == {-3000, 0, 2400}
RefDriftValues == {0, 2}
NetDriftValues == {0, 500}

(***************************************************************************)
(* sync.go: constants.                                                     *)
(***************************************************************************)
refClkImpact == <<5, 4>>
refClkCutoff == 0
refClkTimeout == 1
refClkInterval == 2
netClkImpact == <<5, 2>>
netClkCutoff == 1000
netClkTimeout == 5
netClkInterval == 60

(***************************************************************************)
(* Go slices: nil is distinct from an empty, allocated slice.              *)
(***************************************************************************)
NilSlice == [isNil |-> TRUE, elems |-> <<>>]

MakeSlice(s) == [isNil |-> FALSE, elems |-> s]

SliceLen(s) == Len(s.elems)

\* the handle of &localReferenceClock{}; registered handles are 1, 2, ...
localReferenceClock == 0

VARIABLES
  refClks, refClkOffsets, netClks, netClkOffsets,
  fatal,          \* "none", or the message of the panic that ended the process
  registrations,  \* number of calls of RegisterClocks that returned
  MaxDrift,       \* the local clock's MaxDrift, per tier interval
  localSync,      \* locals of RunLocalClockSync
  globalSync,     \* locals of RunGlobalClockSync
  lastOp          \* what the latest operation or round observed and called

syncVars == <<refClks, refClkOffsets, netClks, netClkOffsets, fatal,
              registrations, MaxDrift, localSync, globalSync, lastOp>>

VARIABLES
  c,     \* the SCIONClient: InterleavedMode, DRKeyFetcher, prev
  call,  \* locals of the call of MeasureClockOffsetSCION in progress
  now,   \* timebase.Now(), in seconds
  ret,   \* how the latest call of MeasureClockOffsetSCION ended
  obs    \* what the call in progress has observed so far

clientVars == <<c, call, now, ret, obs>>

vars == <<syncVars, clientVars>>

(***************************************************************************)
(* timemath (not among the sources): signed duration arithmetic, median    *)
(* and fault-tolerant midpoint as the specification describes them; both   *)
(* sort the slice they are given.                                          *)
(***************************************************************************)
Abs(d) == IF d < 0 THEN -d ELSE d

Sign(d) == IF d < 0 THEN -1 ELSE IF d > 0 THEN 1 ELSE 0

\* Go's integer division and float-to-integer conversion truncate toward zero
Quot(a, b) == Sign(a) * Sign(b) * (Abs(a) \div Abs(b))

\* sort.Slice on the caller's slice: the offsets stay sorted afterwards
Sorted(ds) == SortSeq(ds, LAMBDA a, b : a < b)

Median(ds) ==
  LET n == Len(ds)
      s == Sorted(ds)
  IN IF n = 0 THEN 0
     ELSE IF n % 2 = 1 THEN s[(n + 1) \div 2]
     ELSE Quot(s[n \div 2] + s[n \div 2 + 1], 2)

FaultTolerantMidpoint(ds) ==
  LET n == Len(ds)
      s == Sorted(ds)
      f == (n - 1) \div 3
  IN IF n = 0 THEN 0
     ELSE Quot(s[f + 1] + s[n - f], 2)

(***************************************************************************)
(* client.ReferenceClockClient.MeasureClockOffsets (not among the          *)
(* sources): every slot receives what its clock measured, zero when the    *)
(* measurement failed; localReferenceClock always measures zero.           *)
(***************************************************************************)
LocalMeasureClockOffset == 0

\* the slots of clks that hold registered handles
Sources(clks) == {i \in 1..SliceLen(clks) : clks.elems[i] # localReferenceClock}

MeasureClockOffsets(clks, measured) ==
  [i \in 1..SliceLen(clks) |->
     IF clks.elems[i] = localReferenceClock
     THEN LocalMeasureClockOffset
     ELSE measured[i]]

(***************************************************************************)
(* Theil-Sen and PLL estimators (not among the sources).  The              *)
(* specification fixes their contracts, not their arithmetic, and what     *)
(* they return depends on samples of earlier rounds: GetOffsetNs returns   *)
(* zero or a prediction, AddSampleAndGetData a triple (correction,         *)
(* interval, startFreq) whose interval may be zero.                        *)
(***************************************************************************)
TheilSenGetOffsetNs(corr) == {0, corr}

PllAddSampleAndGetData(corr) ==
  {[correction |-> corr, interval |-> i, startFreq |-> 0] : i \in {0, 16}}

(***************************************************************************)
(* The local clock's calls, as the operations make them.                   *)
(***************************************************************************)
StepCall(d) == [m |-> "Step", a |-> <<d>>]

AdjustCall(p) == [m |-> "Adjust", a |-> <<p.correction, p.interval, p.startFreq>>]

AdjustWithTickCall(f) == [m |-> "AdjustWithTick", a |-> f]

SleepCall(d) == [m |-> "Sleep", a |-> <<d>>]

NoPll == [correction |-> 0, interval |-> 0, startFreq |-> 0]

\* freq and pll: what the estimators returned in the round, if they were fed
NoOp ==
  [op |-> "none", agg |-> 0, tsFed |-> <<>>, pllFed |-> <<>>,
   freq |-> <<0, 1>>, pll |-> NoPll, calls |-> <<>>]

(***************************************************************************)
(* scion.go: the SCIONClient and the values of one call of                 *)
(* MeasureClockOffsetSCION.  A tick of the clock is one second.            *)
(* ntp.Time64 and its conversions are not among the sources: Time64 counts *)
(* from the NTP epoch, so a time t converts to t + NtpEpochOffset and back *)
(* without loss.                                                           *)
(***************************************************************************)
Second == 1

NtpEpochOffset == 10

Time64FromTime(t) == t + NtpEpochOffset

TimeFromTime64(u) == u - NtpEpochOffset

ZeroPrev == [reference |-> "", cTxTime |-> 0, cRxTime |-> 0, sRxTime |-> 0]

ZeroPacket == [OriginTime |-> 0, ReceiveTime |-> 0, TransmitTime |-> 0]

NoAddr == [ia |-> 0, host |-> [w |-> 4, ip |-> "none"]]

NoCall ==
  [pc |-> "idle", remote |-> NoAddr, reference |-> "", deadlineIsSet |-> FALSE,
   deadline |-> 0, cTxTime0 |-> 0, cTxTime1 |-> 0, ntpreq |-> ZeroPacket,
   authKey |-> FALSE]

NoReturn ==
  [kind |-> "none", err |-> "", interleaved |-> FALSE, authenticated |-> FALSE,
   t |-> <<0, 0, 0, 0>>, cRxTime |-> 0, ntpresp |-> ZeroPacket]

\* a datagram as read from the socket at time at; none yet
NoRx ==
  [at |-> 0,
   pkt |-> [flags |-> 0, decodeErr |-> FALSE, layers |-> <<>>,
            srcIA |-> 0, srcAddr |-> NoAddr.host, dstIA |-> 0, dstAddr |-> NoAddr.host,
            tsOpt |-> [present |-> FALSE, ok |-> TRUE, t |-> 0],
            auth |-> [present |-> FALSE, lenOk |-> TRUE, spi |-> "server",
                      algoOk |-> TRUE, macOk |-> TRUE, udpLenOk |-> TRUE],
            ntp |-> [decodeErr |-> FALSE, metaErr |-> FALSE, OriginTime |-> 0,
                     ReceiveTime |-> 0, TransmitTime |-> 0]]]

\* prev: the memory the call started with; last: the latest outcome in the
\* loop; authFailed, others, crossed: a failed authentication, any other
\* outcome, an unexpected packet was passed over; validRx: the server's reply
\* to this request was read; accepted: the datagram success was returned from
NoObs ==
  [prev |-> ZeroPrev, last |-> "none", authFailed |-> FALSE, others |-> FALSE,
   crossed |-> FALSE, validRx |-> FALSE, accepted |-> NoRx]

(***************************************************************************)
(* sync.go: RegisterClocks                                                 *)
(***************************************************************************)
\* mutant: RegisterClocks without the trailing local anchor
WithoutLocalAnchor(netClocks) == netClocks

AlreadyRegistered == ~refClks.isNil \/ ~netClks.isNil

WithLocalAnchor(netClocks) ==
  IF SliceLen(netClocks) # 0
  THEN MakeSlice(Append(netClocks.elems, localReferenceClock))
  ELSE netClocks

\* mutant: the offsets are allocated one slot short
ZerosButOne(n) == [i \in 1..(n - 1) |-> 0]

\* make([]time.Duration, n)
Zeros(n) == [i \in 1..n |-> 0]

RegisterClocks(refClocks, netClocks) ==
  /\ fatal = "none"
  /\ registrations < MaxRegistrations
  /\ IF AlreadyRegistered
     THEN /\ fatal' = "reference clocks already registered"
          /\ UNCHANGED <<refClks, refClkOffsets, netClks, netClkOffsets, registrations>>
     ELSE /\ refClks' = refClocks
          /\ refClkOffsets' = Zeros(SliceLen(refClocks))
          /\ netClks' = WithLocalAnchor(netClocks)
          /\ netClkOffsets' = Zeros(SliceLen(WithLocalAnchor(netClocks)))
          /\ registrations' = registrations + 1
          /\ fatal' = fatal
  /\ lastOp' = [NoOp EXCEPT !.op = "RegisterClocks"]
  /\ UNCHANGED <<MaxDrift, localSync, globalSync>>

(***************************************************************************)
(* sync.go: measureOffsetToRefClocks, SyncToRefClocks                      *)
(***************************************************************************)
measureOffsetToRefClocks(offsets) == Median(offsets)

\* mutant: SyncToRefClocks steps even when the aggregate is zero
StepCallsAlways(corr) == <<StepCall(corr)>>

StepCalls(corr) == IF corr # 0 THEN <<StepCall(corr)>> ELSE <<>>

SyncToRefClocks(measured) ==
  /\ fatal = "none"
  /\ LET offsets == MeasureClockOffsets(refClks, measured)
         corr == measureOffsetToRefClocks(offsets)
     IN /\ refClkOffsets' = Sorted(offsets)
        /\ lastOp' = [NoOp EXCEPT !.op = "SyncToRefClocks", !.agg = corr,
                                  !.calls = StepCalls(corr)]
  /\ UNCHANGED <<refClks, netClks, netClkOffsets, fatal, registrations,
                 MaxDrift, localSync, globalSync>>


(***************************************************************************)
(* sync.go: RunLocalClockSync.  The function's start (precondition checks, *)
(* maxCorr, gauge and estimators) is one step; every iteration of its loop *)
(* up to lclk.Sleep is one step.                                           *)
(***************************************************************************)
NotStarted ==
  [pc |-> "idle", useTheilSen |-> FALSE, maxCorr |-> <<0, 1>>, corrGauge |-> 0]

\* x * d for a rational x and an integer d
Times(x, d) == <<x[1] * d, x[2]>>

\* float comparisons d > x and x <= 0 for an integer d and a rational x
Exceeds(d, x) == d * x[2] > x[1]

\* time.Duration(float64(sgn) * x): truncation toward zero
DurationOf(sgn, x) == Quot(sgn * x[1], x[2])

LocalPreconditions ==
  IF refClkImpact[1] <= refClkImpact[2]
  THEN "invalid reference clock impact factor"
  ELSE IF refClkInterval <= 0
  THEN "invalid reference clock sync interval"
  ELSE IF refClkTimeout < 0 \/ refClkTimeout > refClkInterval \div 2
  THEN "invalid reference clock sync timeout"
  ELSE IF Times(refClkImpact, MaxDrift.ref)[1] <= 0
  THEN "invalid reference clock max correction"
  ELSE "none"

RunLocalClockSync(useTheilSen) ==
  /\ fatal = "none"
  /\ localSync.pc = "idle"
  /\ fatal' = LocalPreconditions
  /\ localSync' =
       IF LocalPreconditions = "none"
       THEN [pc |-> "loop", useTheilSen |-> useTheilSen,
             maxCorr |-> Times(refClkImpact, MaxDrift.ref), corrGauge |-> 0]
       ELSE localSync
  /\ lastOp' = [NoOp EXCEPT !.op = "StartLocalClockSync"]
  /\ UNCHANGED <<refClks, refClkOffsets, netClks, netClkOffsets, registrations,
                 MaxDrift, globalSync>>

LocalBeyondCutoff(corr) == Abs(corr) > refClkCutoff

\* mutant: the clamp loses the sign of the aggregate
LocalClampUnsigned(corr, maxCorr) ==
  IF Exceeds(Abs(corr), maxCorr) THEN DurationOf(1, maxCorr) ELSE corr

LocalClamp(corr, maxCorr) ==
  IF Exceeds(Abs(corr), maxCorr) THEN DurationOf(Sign(corr), maxCorr) ELSE corr

\* frequencyPPB := offset / float64(interval.Nanoseconds()) * 1e9
FrequencyPPB(offset, interval) == <<offset, interval>>

\* mutant: a correction the PLL cannot spread over an interval is stepped
LocalActuateStepping(useTheilSen, frequencyPPB, pll) ==
  IF useTheilSen
  THEN IF Abs(frequencyPPB[1]) > 0 THEN <<AdjustWithTickCall(frequencyPPB)>> ELSE <<>>
  ELSE IF pll.interval > 0 THEN <<AdjustCall(pll)>> ELSE <<StepCall(pll.correction)>>

LocalActuate(useTheilSen, frequencyPPB, pll) ==
  IF useTheilSen
  THEN IF Abs(frequencyPPB[1]) > 0 THEN <<AdjustWithTickCall(frequencyPPB)>> ELSE <<>>
  ELSE IF pll.interval > 0 THEN <<AdjustCall(pll)>> ELSE <<>>

\* mutant: the gauge is not reset at the start of the round
LocalCorrGaugeKept(beyond, corr) == IF beyond THEN corr ELSE localSync.corrGauge

\* lines 97 and 130: corrGauge.Set(0), then corrGauge.Set(float64(corr)) in
\* the branch; float64 holds every whole number of this magnitude exactly
LocalCorrGauge(beyond, corr) == IF beyond THEN corr ELSE 0

LocalClockSyncRound(measured) ==
  /\ fatal = "none"
  /\ localSync.pc = "loop"
  /\ LET offsets == MeasureClockOffsets(refClks, measured)
         agg == measureOffsetToRefClocks(offsets)
         corr == LocalClamp(agg, localSync.maxCorr)
     IN /\ refClkOffsets' = Sorted(offsets)
        /\ IF LocalBeyondCutoff(agg)
           THEN \E offset \in TheilSenGetOffsetNs(corr), pll \in PllAddSampleAndGetData(corr) :
                  /\ localSync' = [localSync EXCEPT !.corrGauge = LocalCorrGauge(TRUE, corr)]
                  /\ lastOp' =
                       [op |-> "RunLocalClockSync", agg |-> agg,
                        tsFed |-> <<corr>>, pllFed |-> <<corr>>,
                        freq |-> FrequencyPPB(offset, refClkInterval), pll |-> pll,
                        calls |-> LocalActuate(localSync.useTheilSen,
                                       FrequencyPPB(offset, refClkInterval), pll)
                                    \o <<SleepCall(refClkInterval)>>]
           ELSE /\ localSync' = [localSync EXCEPT !.corrGauge = LocalCorrGauge(FALSE, corr)]
                /\ lastOp' =
                     [op |-> "RunLocalClockSync", agg |-> agg,
                      tsFed |-> <<>>, pllFed |-> <<>>,
                      freq |-> <<0, 1>>, pll |-> NoPll,
                      calls |-> <<SleepCall(refClkInterval)>>]
  /\ UNCHANGED <<refClks, netClks, netClkOffsets, fatal, registrations,
                 MaxDrift, globalSync>>

(***************************************************************************)
(* sync.go: measureOffsetToNetClocks, RunGlobalClockSync                   *)
(***************************************************************************)
measureOffsetToNetClocks(offsets) == FaultTolerantMidpoint(offsets)

GlobalPreconditions ==
  IF netClkImpact[1] <= netClkImpact[2]
  THEN "invalid network clock impact factor"
  ELSE IF (netClkImpact[1] - netClkImpact[2]) * refClkImpact[2]
            <= refClkImpact[1] * netClkImpact[2]
  THEN "invalid network clock impact factor"
  ELSE IF netClkInterval < refClkInterval
  THEN "invalid network clock sync interval"
  ELSE IF netClkTimeout < 0 \/ netClkTimeout > netClkInterval \div 2
  THEN "invalid network clock sync timeout"
  ELSE IF Times(netClkImpact, MaxDrift.net)[1] <= 0
  THEN "invalid network clock max correction"
  ELSE "none"

RunGlobalClockSync(useTheilSen) ==
  /\ fatal = "none"
  /\ globalSync.pc = "idle"
  /\ fatal' = GlobalPreconditions
  /\ globalSync' =
       IF GlobalPreconditions = "none"
       THEN [pc |-> "loop", useTheilSen |-> useTheilSen,
             maxCorr |-> Times(netClkImpact, MaxDrift.net), corrGauge |-> 0]
       ELSE globalSync
  /\ lastOp' = [NoOp EXCEPT !.op = "StartGlobalClockSync"]
  /\ UNCHANGED <<refClks, refClkOffsets, netClks, netClkOffsets, registrations,
                 MaxDrift, localSync>>

\* mutant: the network tier tests against the reference tier's cutoff
GlobalBeyondRefCutoff(corr) == Abs(corr) > refClkCutoff

GlobalBeyondCutoff(corr) == Abs(corr) > netClkCutoff

GlobalClamp(corr, maxCorr) ==
  IF Exceeds(Abs(corr), maxCorr) THEN DurationOf(Sign(corr), maxCorr) ELSE corr

\* mutant: the PLL's correction is applied whatever its interval
GlobalActuateAnyInterval(useTheilSen, frequencyPPB, pll) ==
  IF useTheilSen
  THEN IF Abs(frequencyPPB[1]) > 0 THEN <<AdjustWithTickCall(frequencyPPB)>> ELSE <<>>
  ELSE <<AdjustCall(pll)>>

GlobalActuate(useTheilSen, frequencyPPB, pll) ==
  IF useTheilSen
  THEN IF Abs(frequencyPPB[1]) > 0 THEN <<AdjustWithTickCall(frequencyPPB)>> ELSE <<>>
  ELSE IF pll.interval > 0 THEN <<AdjustCall(pll)>> ELSE <<>>

\* lines 167 and 199
GlobalCorrGauge(beyond, corr) == IF beyond THEN corr ELSE 0

GlobalClockSyncRound(measured) ==
  /\ fatal = "none"
  /\ globalSync.pc = "loop"
  /\ LET offsets == MeasureClockOffsets(netClks, measured)
         agg == measureOffsetToNetClocks(offsets)
         corr == GlobalClamp(agg, globalSync.maxCorr)
     IN /\ netClkOffsets' = Sorted(offsets)
        /\ IF GlobalBeyondCutoff(agg)
           THEN \E offset \in TheilSenGetOffsetNs(corr), pll \in PllAddSampleAndGetData(corr) :
                  /\ globalSync' = [globalSync EXCEPT !.corrGauge = GlobalCorrGauge(TRUE, corr)]
                  /\ lastOp' =
                       [op |-> "RunGlobalClockSync", agg |-> agg,
                        tsFed |-> <<corr>>, pllFed |-> <<corr>>,
                        freq |-> FrequencyPPB(offset, netClkInterval), pll |-> pll,
                        calls |-> GlobalActuate(globalSync.useTheilSen,
                                       FrequencyPPB(offset, netClkInterval), pll)
                                    \o <<SleepCall(netClkInterval)>>]
           ELSE /\ globalSync' = [globalSync EXCEPT !.corrGauge = GlobalCorrGauge(FALSE, corr)]
                /\ lastOp' =
                     [op |-> "RunGlobalClockSync", agg |-> agg,
                      tsFed |-> <<>>, pllFed |-> <<>>,
                      freq |-> <<0, 1>>, pll |-> NoPll,
                      calls |-> <<SleepCall(netClkInterval)>>]
  /\ UNCHANGED <<refClks, refClkOffsets, netClks, fatal, registrations,
                 MaxDrift, localSync>>

(***************************************************************************)
(* The discipline core: registration, the startup step and the two loops.  *)
(***************************************************************************)
\* the client's variables while only the discipline core is exercised
ClientNotInUse ==
  /\ c = [InterleavedMode |-> FALSE, DRKeyFetcher |-> FALSE, prev |-> ZeroPrev]
  /\ call = NoCall
  /\ now = 0
  /\ ret = NoReturn
  /\ obs = NoObs

ClockLists(max) == {NilSlice} \cup {MakeSlice([i \in 1..n |-> i]) : n \in 0..max}

Init ==
  /\ refClks = NilSlice
  /\ refClkOffsets = <<>>
  /\ netClks = NilSlice
  /\ netClkOffsets = <<>>
  /\ fatal = "none"
  /\ registrations = 0
  /\ MaxDrift \in [ref : RefDriftValues, net : NetDriftValues]
  /\ localSync = NotStarted
  /\ globalSync = NotStarted
  /\ lastOp = NoOp
  /\ ClientNotInUse

DoRegisterClocks ==
  /\ \E refClocks \in ClockLists(MaxRefClocks), netClocks \in ClockLists(MaxNetClocks) :
       RegisterClocks(refClocks, netClocks)
  /\ UNCHANGED clientVars

DoSyncToRefClocks ==
  /\ \E measured \in [Sources(refClks) -> RefOffsetValues] : SyncToRefClocks(measured)
  /\ UNCHANGED clientVars

DoRunLocalClockSync ==
  /\ \E useTheilSen \in BOOLEAN : RunLocalClockSync(useTheilSen)
  /\ UNCHANGED clientVars

DoLocalClockSyncRound ==
  /\ \E measured \in [Sources(refClks) -> RefOffsetValues] : LocalClockSyncRound(measured)
  /\ UNCHANGED clientVars

DoRunGlobalClockSync ==
  /\ \E useTheilSen \in BOOLEAN : RunGlobalClockSync(useTheilSen)
  /\ UNCHANGED clientVars

DoGlobalClockSyncRound ==
  /\ \E measured \in [Sources(netClks) -> NetOffsetValues] : GlobalClockSyncRound(measured)
  /\ UNCHANGED clientVars

Next ==
  \/ DoRegisterClocks
  \/ DoSyncToRefClocks
  \/ DoRunLocalClockSync
  \/ DoLocalClockSyncRound
  \/ DoRunGlobalClockSync
  \/ DoGlobalClockSyncRound

Spec == Init /\ [][Next]_vars


(***************************************************************************)
(* Properties of the discipline core.                                      *)
(***************************************************************************)
IsTierRound == lastOp.op \in {"RunLocalClockSync", "RunGlobalClockSync"}

TierMaxCorr ==
  IF lastOp.op = "RunLocalClockSync" THEN localSync.maxCorr ELSE globalSync.maxCorr

TierCutoff == IF lastOp.op = "RunLocalClockSync" THEN refClkCutoff ELSE netClkCutoff

Fed == lastOp.tsFed[1]

CallsOf(methods) == {i \in 1..Len(lastOp.calls) : lastOp.calls[i].m \in methods}

\* C1 as stated: in every round of either loop the value fed to the Theil-Sen
\* estimator and to the PLL is within impact * max_drift(interval); it is the
\* aggregate when that is within the ceiling and otherwise exactly
\* sign(aggregate) * ceiling.
ClampLawExact ==
  (IsTierRound /\ lastOp.tsFed # <<>>) =>
    /\ lastOp.pllFed = lastOp.tsFed
    /\ ~Exceeds(Abs(Fed), TierMaxCorr)
    /\ ~Exceeds(Abs(lastOp.agg), TierMaxCorr) => Fed = lastOp.agg
    /\ Exceeds(Abs(lastOp.agg), TierMaxCorr) =>
         Fed * TierMaxCorr[2] = Sign(lastOp.agg) * TierMaxCorr[1]

\* C1 amended: as above, but beyond the ceiling the value fed is
\* sign(aggregate) * ceiling truncated toward zero to whole nanoseconds: it has
\* the aggregate's sign and is the largest whole magnitude within the ceiling.
ClampLawTruncated ==
  (IsTierRound /\ lastOp.tsFed # <<>>) =>
    /\ lastOp.pllFed = lastOp.tsFed
    /\ ~Exceeds(Abs(Fed), TierMaxCorr)
    /\ ~Exceeds(Abs(lastOp.agg), TierMaxCorr) => Fed = lastOp.agg
    /\ Exceeds(Abs(lastOp.agg), TierMaxCorr) =>
         /\ Sign(Fed) = Sign(lastOp.agg)
         /\ Exceeds(Abs(Fed) + 1, TierMaxCorr)

ClampApplied ==
  /\ lastOp.op = "RunLocalClockSync"
  /\ lastOp.tsFed = <<-2>>
  /\ lastOp.pllFed = <<-2>>
  /\ lastOp.agg = -7

\* C2: a round of either loop whose aggregate is within the cutoff feeds
\* neither estimator and calls none of Adjust, AdjustWithTick and Step.
DeadZoneLaw ==
  (IsTierRound /\ Abs(lastOp.agg) <= TierCutoff) =>
    /\ lastOp.tsFed = <<>>
    /\ lastOp.pllFed = <<>>
    /\ CallsOf({"Adjust", "AdjustWithTick", "Step"}) = {}

DeadZoneRound ==
  /\ lastOp.op = "RunGlobalClockSync"
  /\ lastOp.agg = -300
  /\ lastOp.calls = <<SleepCall(netClkInterval)>>

\* the registered network sources, and the slots when they all report x
NetSources == Sources(netClks)

Colluding(x) ==
  /\ lastOp.op = "RunGlobalClockSync"
  /\ NetSources # {}
  /\ netClkOffsets =
       Sorted([i \in 1..SliceLen(netClks) |-> IF i \in NetSources THEN x ELSE 0])

StartupStep ==
  lastOp.op = "SyncToRefClocks" =>
    /\ lastOp.agg = Median(refClkOffsets)
    /\ lastOp.agg # 0 => lastOp.calls = <<[m |-> "Step", a |-> <<lastOp.agg>>]>>
    /\ lastOp.agg = 0 => lastOp.calls = <<>>
    /\ lastOp.tsFed = <<>> /\ lastOp.pllFed = <<>>

StartupStepTaken ==
  /\ lastOp.op = "SyncToRefClocks"
  /\ refClkOffsets = <<-7, 1>>
  /\ lastOp.calls = <<[m |-> "Step", a |-> <<-3>>]>>
  /\ MaxDrift.ref = 2

\* C10: the first call of RegisterClocks succeeds and no later call does,
\* whatever the argument lists.
OneTimeRegistration == registrations <= 1

\* the layout of the registry once RegisterClocks has returned
RegistryLayoutInv ==
  registrations >= 1 =>
    /\ Len(refClkOffsets) = SliceLen(refClks)
    /\ Len(netClkOffsets) = SliceLen(netClks)
    /\ \A i \in 1..SliceLen(refClks) : refClks.elems[i] = i
    /\ LET n == SliceLen(netClks)
       IN n # 0 =>
            /\ n >= 2
            /\ netClks.elems[n] = localReferenceClock
            /\ \A i \in 1..(n - 1) : netClks.elems[i] = i

\* a step other than a registration keeps the clock lists and the lengths
RegistryKept ==
  (registrations >= 1 /\ registrations' = registrations) =>
    /\ refClks' = refClks
    /\ netClks' = netClks
    /\ Len(refClkOffsets') = Len(refClkOffsets)
    /\ Len(netClkOffsets') = Len(netClkOffsets)

\* C11: once RegisterClocks has returned, across SyncToRefClocks and the
\* rounds of both loops, the offsets are as long as the clock lists, the
\* network list is the registered handles followed by exactly one local
\* anchor when it is non-empty and empty otherwise, and no length changes.
RegistryLayout == []RegistryLayoutInv /\ [][RegistryKept]_vars

RegistryInUse ==
  /\ lastOp.op = "RunGlobalClockSync"
  /\ netClks.elems = <<1, 2, localReferenceClock>>
  /\ netClkOffsets = <<-3000, 0, 2400>>
  /\ SliceLen(refClks) = 0

\* C12: no round of either loop calls Step, however large the aggregate;
\* only SyncToRefClocks does.
LoopsNeverStep ==
  /\ IsTierRound => CallsOf({"Step"}) = {}
  /\ CallsOf({"Step"}) # {} => lastOp.op = "SyncToRefClocks"

LargeOffsetRound ==
  /\ lastOp.op = "RunLocalClockSync"
  /\ lastOp.agg = -7
  /\ Exceeds(Abs(lastOp.agg), localSync.maxCorr)
  /\ lastOp.pll.interval = 0
  /\ lastOp.calls = <<SleepCall(refClkInterval)>>

TierUseTheilSen ==
  IF lastOp.op = "RunLocalClockSync" THEN localSync.useTheilSen
  ELSE globalSync.useTheilSen

TierInterval ==
  IF lastOp.op = "RunLocalClockSync" THEN refClkInterval ELSE netClkInterval

TierGauge ==
  IF lastOp.op = "RunLocalClockSync" THEN localSync.corrGauge
  ELSE globalSync.corrGauge

\* C17: a round of either loop whose aggregate is beyond the cutoff feeds the
\* Theil-Sen estimator and the PLL the same sample once each; with Theil-Sen
\* AdjustWithTick is called iff the frequency is non-zero and Adjust is not
\* called, with the PLL Adjust is called iff the interval is positive and
\* AdjustWithTick is not called; at most one actuator is called.
EstimatorsAndActuators ==
  (IsTierRound /\ Abs(lastOp.agg) > TierCutoff) =>
    /\ Len(lastOp.tsFed) = 1
    /\ lastOp.pllFed = lastOp.tsFed
    /\ lastOp.pll.correction = Fed
    /\ TierUseTheilSen =>
         /\ (CallsOf({"AdjustWithTick"}) # {}) <=> (lastOp.freq[1] # 0)
         /\ CallsOf({"Adjust"}) = {}
    /\ ~TierUseTheilSen =>
         /\ (CallsOf({"Adjust"}) # {}) <=> (lastOp.pll.interval > 0)
         /\ CallsOf({"AdjustWithTick"}) = {}
    /\ Cardinality(CallsOf({"Adjust", "AdjustWithTick", "Step"})) <= 1

DiscardedCorrection ==
  /\ lastOp.op = "RunGlobalClockSync"
  /\ ~globalSync.useTheilSen
  /\ lastOp.tsFed = <<-1250>>
  /\ lastOp.pll.interval = 0
  /\ lastOp.calls = <<SleepCall(netClkInterval)>>

\* C18: when a loop reaches its Sleep, its gauge reads the value fed to the
\* estimators in that round if the aggregate was beyond the cutoff and zero
\* otherwise; the round ends with exactly one Sleep(interval).
CorrectionGauge ==
  IsTierRound =>
    /\ TierGauge = IF Abs(lastOp.agg) > TierCutoff THEN Fed ELSE 0
    /\ CallsOf({"Sleep"}) = {Len(lastOp.calls)}
    /\ lastOp.calls[Len(lastOp.calls)] = SleepCall(TierInterval)

GaugeReadsCorrection ==
  /\ lastOp.op = "RunLocalClockSync"
  /\ lastOp.agg = -7
  /\ localSync.corrGauge = -2
  /\ globalSync.corrGauge = 1200


(***************************************************************************)
(* scion.go: addresses and compareIPs.  An address is its byte width and   *)
(* the IP it denotes; a 16-byte address of an IPv4 host is 4-in-6.         *)
(***************************************************************************)
IPv4(ip) == [w |-> 4, ip |-> ip]

IPv4In6(ip) == [w |-> 16, ip |-> ip]

OddWidth(ip) == [w |-> 8, ip |-> ip]

\* netip.AddrFromSlice accepts 4 and 16 bytes
AddrFromSliceOk(x) == x.w \in {4, 16}

\* addrX.Is4In6() and netip.AddrFrom4(addrX.As4())
Unmap(x) == IF x.w = 16 /\ x.ip # "v6" THEN IPv4(x.ip) ELSE x

\* mutant: any two addresses of a valid width compare equal
compareIPsByWidth(x, y) ==
  IF ~AddrFromSliceOk(x) \/ ~AddrFromSliceOk(y) THEN "panic" ELSE "equal"

compareIPs(x, y) ==
  IF ~AddrFromSliceOk(x) \/ ~AddrFromSliceOk(y) THEN "panic"
  ELSE IF Unmap(x) = Unmap(y) THEN "equal"
  ELSE "differ"

IAString == [ia \in {1, 2} |-> IF ia = 1 THEN "1-ff00:0:1" ELSE "1-ff00:0:2"]

localAddr == [ia |-> 1, host |-> IPv4("l")]

Remotes == {[ia |-> 1, host |-> IPv4("a")], [ia |-> 2, host |-> IPv4("b")]}

Reference(remoteAddr) == IAString[remoteAddr.ia] \o "," \o remoteAddr.host.ip

(***************************************************************************)
(* Datagrams as the receive loop sees them: message flags, whether the     *)
(* layers decode, the decoded layer types, the SCION addresses, the E2E    *)
(* options and the NTP payload.                                            *)
(***************************************************************************)
NoTimestampOpt == [present |-> FALSE, ok |-> TRUE, t |-> 0]

NoAuthOpt ==
  [present |-> FALSE, lenOk |-> TRUE, spi |-> "server", algoOk |-> TRUE,
   macOk |-> TRUE, udpLenOk |-> TRUE]

ServerAuthOpt == [NoAuthOpt EXCEPT !.present = TRUE]

NtpResponse(origin, receive, transmit) ==
  [decodeErr |-> FALSE, metaErr |-> FALSE,
   OriginTime |-> origin, ReceiveTime |-> receive, TransmitTime |-> transmit]

\* a response of the server of this call to this host
Response(ntp) ==
  [flags |-> 0, decodeErr |-> FALSE, layers |-> <<"SCION", "SCIONUDP">>,
   srcIA |-> call.remote.ia, srcAddr |-> call.remote.host,
   dstIA |-> localAddr.ia, dstAddr |-> localAddr.host,
   tsOpt |-> NoTimestampOpt, auth |-> NoAuthOpt, ntp |-> ntp]

WithE2E(pkt) == [pkt EXCEPT !.layers = <<"SCION", "EndToEndExtn", "SCIONUDP">>]

\* what the server stamps: it received one tick ahead of this clock
ServerRx == Time64FromTime(now) + 1

\* the reply a basic-mode server sends to this request
BasicNtp == NtpResponse(call.ntpreq.TransmitTime, ServerRx, ServerRx)

\* NTP payloads: the origins a server may echo (the request's transmit
\* field, the stored receive time, the fresh send time, a foreign value),
\* a transmit time at or before the receive time, an undecodable payload,
\* invalid metadata
NtpPayloads ==
  {NtpResponse(o, ServerRx, tx) :
     o \in {call.ntpreq.TransmitTime, c.prev.cRxTime,
            Time64FromTime(call.cTxTime0), Time64FromTime(MaxTime) + 5},
     tx \in {ServerRx - 1, ServerRx}}
  \cup {[BasicNtp EXCEPT !.decodeErr = TRUE], [BasicNtp EXCEPT !.metaErr = TRUE]}

OtherRemote == CHOOSE r \in Remotes : r # call.remote

\* datagrams that differ from the basic reply in one respect (or two)
Anomalies ==
  LET b == Response(BasicNtp)
      e == WithE2E(b)
  IN {[b EXCEPT !.flags = 1],
      [b EXCEPT !.decodeErr = TRUE],
      [b EXCEPT !.layers = <<"SCION", "SCMP">>],
      [b EXCEPT !.layers = <<"SCION">>],
      [b EXCEPT !.srcIA = OtherRemote.ia],
      [b EXCEPT !.srcAddr = OtherRemote.host],
      [b EXCEPT !.srcAddr = IPv4In6(call.remote.host.ip)],
      [b EXCEPT !.srcAddr = IPv4In6("v6")],
      [b EXCEPT !.srcAddr = OddWidth(call.remote.host.ip)],
      [b EXCEPT !.srcIA = OtherRemote.ia, !.srcAddr = OddWidth(call.remote.host.ip)],
      [b EXCEPT !.dstIA = OtherRemote.ia],
      [b EXCEPT !.dstAddr = IPv4("x")],
      [b EXCEPT !.dstAddr = OddWidth("l")],
      e,
      [e EXCEPT !.tsOpt = [present |-> TRUE, ok |-> TRUE, t |-> 0]],
      [e EXCEPT !.tsOpt = [present |-> TRUE, ok |-> FALSE, t |-> 0]],
      [e EXCEPT !.auth = [ServerAuthOpt EXCEPT !.macOk = FALSE]],
      [e EXCEPT !.auth = [ServerAuthOpt EXCEPT !.lenOk = FALSE]],
      [e EXCEPT !.auth = [ServerAuthOpt EXCEPT !.spi = "client"]],
      [e EXCEPT !.auth = [ServerAuthOpt EXCEPT !.algoOk = FALSE]],
      [e EXCEPT !.auth = [ServerAuthOpt EXCEPT !.udpLenOk = FALSE]]}

Datagrams ==
  {Response(ntp) : ntp \in NtpPayloads}
  \cup {[WithE2E(Response(ntp)) EXCEPT !.auth = ServerAuthOpt] : ntp \in NtpPayloads}
  \cup Anomalies


(***************************************************************************)
(* scion.go: MeasureClockOffsetSCION up to the receive loop (lines 63 to   *)
(* 250): socket, deadline, request, key, send, transmit timestamp.         *)
(***************************************************************************)
\* mutant: the request is interleaved however old the memory is
RequestIgnoringAge(reference, cTxTime0) ==
  IF c.InterleavedMode /\ reference = c.prev.reference
  THEN [OriginTime |-> c.prev.sRxTime, ReceiveTime |-> c.prev.cRxTime,
        TransmitTime |-> c.prev.cTxTime]
  ELSE [ZeroPacket EXCEPT !.TransmitTime = Time64FromTime(cTxTime0)]

\* lines 110-120: the request in interleaved or in basic form
Request(reference, cTxTime0) ==
  IF /\ c.InterleavedMode
     /\ reference = c.prev.reference
     /\ cTxTime0 - TimeFromTime64(c.prev.cTxTime) <= Second
  THEN [OriginTime |-> c.prev.sRxTime, ReceiveTime |-> c.prev.cRxTime,
        TransmitTime |-> c.prev.cTxTime]
  ELSE [ZeroPacket EXCEPT !.TransmitTime = Time64FromTime(cTxTime0)]

Returned(kind, err) == [NoReturn EXCEPT !.kind = kind, !.err = err]

\* outcome: which of ListenUDP, SetDeadline and WriteToUDPAddrPort fails, if any
MeasureClockOffsetSCION(remoteAddr, deadlineIsSet, timeout, outcome, keyFetched, txDelay) ==
  /\ call.pc = "idle"
  /\ ret.kind # "panic"
  /\ now + txDelay <= MaxTime
  /\ deadlineIsSet => now + timeout <= MaxTime
  /\ outcome = "SetDeadline" => deadlineIsSet
  /\ LET sent == outcome = "sent"
         locals ==
           [pc |-> IF sent THEN "recv" ELSE "idle",
            remote |-> remoteAddr,
            reference |-> Reference(remoteAddr),
            deadlineIsSet |-> deadlineIsSet,
            deadline |-> IF deadlineIsSet THEN now + timeout ELSE 0,
            cTxTime0 |-> now,
            cTxTime1 |-> now + txDelay,
            ntpreq |-> Request(Reference(remoteAddr), now),
            authKey |-> c.DRKeyFetcher /\ keyFetched]
     IN /\ call' = IF outcome \in {"ListenUDP", "SetDeadline"}
                   THEN [NoCall EXCEPT !.remote = remoteAddr] ELSE locals
        /\ ret' = IF sent THEN NoReturn ELSE Returned("err", outcome)
        /\ now' = IF sent THEN now + txDelay ELSE now
        /\ obs' = [NoObs EXCEPT !.prev = c.prev]
        /\ c' = c

(***************************************************************************)
(* scion.go: one iteration of the receive loop (lines 253 to 439).         *)
(***************************************************************************)
\* mutant: an anomaly ends the call at once
RetryNever(before, err) == [NoReturn EXCEPT !.kind = "err", !.err = err]

\* an anomaly: continue while the deadline is ahead, return the error otherwise
Retry(before, err) ==
  [NoReturn EXCEPT !.kind = IF before THEN "continue" ELSE "err", !.err = err]

\* mutant: a failed authentication treated like the other anomalies
AuthenticationFailureRetry(before) == Retry(before, "authentication")

\* lines 361-364: a failed authentication always continues
AuthenticationFailure(before) ==
  [NoReturn EXCEPT !.kind = "continue", !.err = "authentication"]

Panic(msg) == [NoReturn EXCEPT !.kind = "panic", !.err = msg]

\* ntp.ValidateTimestamps (not among the sources)
ValidateTimestamps(t0, t1, t2, t3) == t0 <= t3 /\ t1 <= t2

\* lines 380-383
Interleaved(ntpresp) == c.InterleavedMode /\ ntpresp.OriginTime = c.prev.cRxTime

\* mutant: the origin of a basic response is compared with the fresh send time
OriginMismatchFresh(ntpresp) ==
  ntpresp.OriginTime # Time64FromTime(call.cTxTime0)

\* line 383
OriginMismatch(ntpresp) == ntpresp.OriginTime # call.ntpreq.TransmitTime

\* mutant: the interleaved exchange uses this round's receive time as t3
TimestampsThisRx(interleaved, ntpresp, cTxTime1, cRxTime) ==
  IF interleaved
  THEN <<TimeFromTime64(c.prev.cTxTime), TimeFromTime64(c.prev.sRxTime),
         TimeFromTime64(ntpresp.TransmitTime), cRxTime>>
  ELSE <<cTxTime1, TimeFromTime64(ntpresp.ReceiveTime),
         TimeFromTime64(ntpresp.TransmitTime), cRxTime>>

\* lines 399-413
Timestamps(interleaved, ntpresp, cTxTime1, cRxTime) ==
  IF interleaved
  THEN <<TimeFromTime64(c.prev.cTxTime), TimeFromTime64(c.prev.sRxTime),
         TimeFromTime64(ntpresp.TransmitTime), TimeFromTime64(c.prev.cRxTime)>>
  ELSE <<cTxTime1, TimeFromTime64(ntpresp.ReceiveTime),
         TimeFromTime64(ntpresp.TransmitTime), cRxTime>>

\* lines 370-438: the NTP payload of a packet that passed the packet checks
HandleNtp(ntpresp, cRxTime, authenticated, before) ==
  LET interleaved == Interleaved(ntpresp)
      t == Timestamps(interleaved, ntpresp, call.cTxTime1, cRxTime)
  IN IF ntpresp.decodeErr THEN Retry(before, "ntp.DecodePacket")
     ELSE IF ~interleaved /\ OriginMismatch(ntpresp)
     THEN Retry(before, "errUnexpectedPacket")
     ELSE IF ntpresp.metaErr THEN Returned("err", "ntp.ValidateMetadata")
     ELSE IF ~ValidateTimestamps(t[1], t[2], t[2], t[4])
     THEN Returned("err", "ntp.ValidateTimestamps")
     ELSE [kind |-> "ok", err |-> "", interleaved |-> interleaved,
           authenticated |-> authenticated, t |-> t,
           cRxTime |-> Time64FromTime(cRxTime),
           ntpresp |-> [OriginTime |-> ntpresp.OriginTime,
                        ReceiveTime |-> ntpresp.ReceiveTime,
                        TransmitTime |-> ntpresp.TransmitTime]]

\* lines 264-368: flags, decoding, layer types, addresses, E2E options
HandleDatagram(pkt, cRxTimeOOB, before) ==
  LET n == Len(pkt.layers)
      validType == n >= 2 /\ pkt.layers[n] = "SCIONUDP"
      srcCmp == IF pkt.srcIA = call.remote.ia
                THEN compareIPs(pkt.srcAddr, call.remote.host) ELSE "skipped"
      dstCmp == IF pkt.dstIA = localAddr.ia
                THEN compareIPs(pkt.dstAddr, localAddr.host) ELSE "skipped"
      hasE2E == n >= 3 /\ pkt.layers[n - 1] = "EndToEndExtn"
      cRxTime == IF hasE2E /\ pkt.tsOpt.present /\ pkt.tsOpt.ok
                 THEN pkt.tsOpt.t ELSE cRxTimeOOB
      hasAuthOpt == hasE2E /\ call.authKey /\ pkt.auth.present
      verifies == hasAuthOpt /\ pkt.auth.spi = "server" /\ pkt.auth.algoOk
  IN IF pkt.flags # 0 THEN Retry(before, "errUnexpectedPacketFlags")
     ELSE IF pkt.decodeErr THEN Retry(before, "DecodeLayers")
     ELSE IF ~validType THEN Retry(before, "errUnexpectedPacket")
     ELSE IF srcCmp = "panic" \/ dstCmp = "panic"
     THEN Panic("unexpected IP address byte slice")
     ELSE IF srcCmp # "equal" \/ dstCmp # "equal"
     THEN Retry(before, "errUnexpectedPacket")
     ELSE IF hasAuthOpt /\ ~pkt.auth.lenOk
     THEN Panic("unexpected authenticator option data")
     ELSE IF verifies /\ ~pkt.auth.udpLenOk
     THEN Panic("slice bounds out of range")
     ELSE IF verifies /\ ~pkt.auth.macOk THEN AuthenticationFailure(before)
     ELSE HandleNtp(pkt.ntp, cRxTime, verifies, before)


\* mutant: the memory keeps the timestamps the offset was computed from
RememberUsed(out) ==
  IF c.InterleavedMode
  THEN [reference |-> call.reference, cTxTime |-> Time64FromTime(out.t[1]),
        cRxTime |-> Time64FromTime(out.t[4]), sRxTime |-> Time64FromTime(out.t[2])]
  ELSE c.prev

\* lines 428-433: the memory of the exchange, kept in interleaved mode
Remember(out) ==
  IF c.InterleavedMode
  THEN [reference |-> call.reference, cTxTime |-> Time64FromTime(call.cTxTime1),
        cRxTime |-> out.cRxTime, sRxTime |-> out.ntpresp.ReceiveTime]
  ELSE c.prev

\* the errors of the unexpected packets: flags, layers, addresses, payload, origin
AnomalyErrors ==
  {"errUnexpectedPacketFlags", "DecodeLayers", "errUnexpectedPacket", "ntp.DecodePacket"}

\* the reply of the addressed server to this call's request: flags, layers
\* and addresses as expected, no receive timestamp of its own, an NTP payload
\* that decodes, echoes the request's transmit time and was sent after it
\* was received
IsValidReply(pkt) ==
  /\ pkt.flags = 0
  /\ ~pkt.decodeErr
  /\ pkt.layers \in {<<"SCION", "SCIONUDP">>, <<"SCION", "EndToEndExtn", "SCIONUDP">>}
  /\ pkt.srcIA = call.remote.ia
  /\ pkt.srcAddr \in {call.remote.host, IPv4In6(call.remote.host.ip)}
  /\ pkt.dstIA = localAddr.ia
  /\ pkt.dstAddr = localAddr.host
  /\ ~pkt.tsOpt.present
  /\ pkt.auth \in {NoAuthOpt, ServerAuthOpt}
  /\ ~pkt.ntp.decodeErr
  /\ ~pkt.ntp.metaErr
  /\ pkt.ntp.OriginTime = call.ntpreq.TransmitTime
  /\ pkt.ntp.ReceiveTime <= pkt.ntp.TransmitTime

\* the loop continues, or the call returns or panics with outcome out of the
\* read rx
Proceed(out, rx) ==
  /\ call' = [call EXCEPT !.pc = IF out.kind = "continue" THEN "recv" ELSE "idle"]
  /\ ret' = IF out.kind = "continue" THEN ret ELSE out
  /\ c' = IF out.kind = "ok" THEN [c EXCEPT !.prev = Remember(out)] ELSE c
  /\ obs' = [obs EXCEPT
               !.last = IF out.kind = "ok" THEN "ok" ELSE out.err,
               !.authFailed = @ \/ out.err = "authentication",
               !.others = @ \/ out.err # "authentication",
               !.crossed = @ \/ (out.kind = "continue" /\ out.err \in AnomalyErrors),
               !.validRx = @ \/ IsValidReply(rx.pkt),
               !.accepted = IF out.kind = "ok" THEN rx ELSE @]

\* mutant: the socket hands out datagrams after its deadline
CanReadAlways == call.pc = "recv"

\* conn.ReadMsgUDPAddrPort succeeds only before the deadline of the socket
CanRead == call.pc = "recv" /\ (call.deadlineIsSet => now < call.deadline)

\* timebase.Now().Before(deadline), evaluated at time t
BeforeDeadline(t) == call.deadlineIsSet /\ t < call.deadline

\* a datagram is read at now and handled at now + delay
Receive(pkt, delay) ==
  /\ CanRead
  /\ now + delay <= MaxTime
  /\ now' = now + delay
  /\ Proceed(HandleDatagram(pkt, now, BeforeDeadline(now + delay)),
             [at |-> now, pkt |-> pkt])

\* lines 257-263: the read fails with a socket error before the deadline
ReadError(delay) ==
  /\ CanRead
  /\ now + delay <= MaxTime
  /\ now' = now + delay
  /\ Proceed(Retry(BeforeDeadline(now + delay), "ReadMsgUDPAddrPort"), NoRx)

\* lines 257-263: the read fails because the deadline of the socket has passed
ReadTimeout ==
  /\ call.pc = "recv"
  /\ call.deadlineIsSet
  /\ now >= call.deadline
  /\ now' = now
  /\ ret' = Returned("err", "i/o timeout")
  /\ call' = [call EXCEPT !.pc = "idle"]
  /\ obs' = [obs EXCEPT !.last = "i/o timeout"]
  /\ c' = c

Tick ==
  /\ now < MaxTime
  /\ ret.kind # "panic"
  /\ now' = now + 1
  /\ UNCHANGED <<c, call, ret, obs>>

(***************************************************************************)
(* The client: calls of MeasureClockOffsetSCION, one at a time.            *)
(***************************************************************************)
SyncNotInUse ==
  /\ refClks = NilSlice
  /\ refClkOffsets = <<>>
  /\ netClks = NilSlice
  /\ netClkOffsets = <<>>
  /\ fatal = "none"
  /\ registrations = 0
  /\ MaxDrift = [ref |-> 0, net |-> 0]
  /\ localSync = NotStarted
  /\ globalSync = NotStarted
  /\ lastOp = NoOp

ClientInit ==
  /\ c \in [InterleavedMode : BOOLEAN, DRKeyFetcher : BOOLEAN, prev : {ZeroPrev}]
  /\ call = NoCall
  /\ now = 0
  /\ ret = NoReturn
  /\ obs = NoObs
  /\ SyncNotInUse

DoMeasureClockOffsetSCION ==
  /\ \E remoteAddr \in Remotes, deadlineIsSet \in BOOLEAN, timeout \in 1..Second,
        outcome \in {"ListenUDP", "SetDeadline", "WriteToUDPAddrPort", "sent"},
        keyFetched \in BOOLEAN, txDelay \in 0..1 :
       MeasureClockOffsetSCION(remoteAddr, deadlineIsSet, timeout, outcome,
                               keyFetched, txDelay)
  /\ UNCHANGED syncVars

DoReceive ==
  /\ \E pkt \in Datagrams, delay \in 0..1 : Receive(pkt, delay)
  /\ UNCHANGED syncVars

DoReadError ==
  /\ \E delay \in 0..1 : ReadError(delay)
  /\ UNCHANGED syncVars

DoReadTimeout == ReadTimeout /\ UNCHANGED syncVars

DoTick == Tick /\ UNCHANGED syncVars

ClientNext ==
  \/ DoMeasureClockOffsetSCION
  \/ DoReceive
  \/ DoReadError
  \/ DoReadTimeout
  \/ DoTick

ClientSpec == ClientInit /\ [][ClientNext]_vars


\* the call's fairness: time passes and a read past the deadline returns
FairClientSpec == ClientSpec /\ WF_vars(DoTick) /\ WF_vars(DoReadTimeout)

(***************************************************************************)
(* Properties of the client.                                               *)
(***************************************************************************)
RequestBuilt == call.reference # ""

\* the memory the call started with is absent, of another server, or stale
MemoryUnusable ==
  \/ obs.prev.reference = ""
  \/ obs.prev.reference # call.reference
  \/ call.cTxTime0 - TimeFromTime64(obs.prev.cTxTime) > Second

MemoryUsable ==
  /\ c.InterleavedMode
  /\ obs.prev.reference = call.reference
  /\ call.cTxTime0 - TimeFromTime64(obs.prev.cTxTime) <= Second

\* C3: no datagram received during MeasureClockOffsetSCION aborts the
\* process: the call keeps reading or returns an error value.
NoAbortFromDatagram == ret.kind # "panic"

\* C4: when the memory of the previous exchange is absent, belongs to another
\* server or is more than a second older than this call's pre-send time, the
\* request carries the fresh send time in TransmitTime and zero in OriginTime
\* and ReceiveTime.
InterleavedPrerequisite ==
  (RequestBuilt /\ MemoryUnusable) =>
    call.ntpreq = [OriginTime |-> 0, ReceiveTime |-> 0,
                   TransmitTime |-> call.cTxTime0 + NtpEpochOffset]

StaleMemoryRequest ==
  /\ call.pc = "recv"
  /\ c.InterleavedMode
  /\ obs.prev.reference = call.reference
  /\ call.cTxTime0 - TimeFromTime64(obs.prev.cTxTime) > Second

\* C5: after a successful exchange with the same server within a second, the
\* request carries the previous (sRxTime, cRxTime, cTxTime) as (origin,
\* receive, transmit); a response whose origin is the previous cRxTime is
\* interleaved and uses (t0, t1, t2, t3) = (previous cTxTime, previous sRxTime,
\* the response's transmit time, previous cRxTime).
InterleavedUpgrade ==
  (RequestBuilt /\ MemoryUsable) =>
    /\ call.ntpreq = [OriginTime |-> obs.prev.sRxTime,
                      ReceiveTime |-> obs.prev.cRxTime,
                      TransmitTime |-> obs.prev.cTxTime]
    /\ (ret.kind = "ok" /\ ret.ntpresp.OriginTime = obs.prev.cRxTime) =>
         /\ ret.interleaved
         /\ ret.t = <<obs.prev.cTxTime - NtpEpochOffset,
                      obs.prev.sRxTime - NtpEpochOffset,
                      ret.ntpresp.TransmitTime - NtpEpochOffset,
                      obs.prev.cRxTime - NtpEpochOffset>>

InterleavedExchange ==
  /\ MemoryUsable
  /\ ret.kind = "ok"
  /\ ret.interleaved
  /\ obs.prev.cRxTime # ret.cRxTime
  /\ call.ntpreq.OriginTime = obs.prev.sRxTime

\* C6 as stated: a response that is not classified as interleaved is accepted
\* only if its origin equals this round's client transmit time, also when the
\* request carried the previous round's timestamps.
BasicOriginIsThisRound ==
  (ret.kind = "ok" /\ ~ret.interleaved) =>
    ret.ntpresp.OriginTime = Time64FromTime(call.cTxTime0)

\* C6 amended: a response that is not classified as interleaved is accepted
\* only if its origin equals the TransmitTime of this round's request: the
\* fresh send time of a basic request, the previous round's cTxTime of a
\* request that carried the previous round's timestamps.
BasicOriginIsRequestTransmit ==
  (ret.kind = "ok" /\ ~ret.interleaved) =>
    /\ MemoryUsable => ret.ntpresp.OriginTime = obs.prev.cTxTime
    /\ ~MemoryUsable => ret.ntpresp.OriginTime = Time64FromTime(call.cTxTime0)

BasicReplyToInterleavedRequest ==
  /\ MemoryUsable
  /\ ret.kind = "ok"
  /\ ~ret.interleaved
  /\ ret.ntpresp.OriginTime # Time64FromTime(call.cTxTime0)

\* C7: with a fetched key and a deadline, a well-formed response whose MAC
\* differs from the recomputed CMAC never makes the exchange return at that
\* point; the client keeps reading and, when nothing but such responses
\* arrives, returns the deadline error once the deadline has passed.
AuthenticatedRejectSafe ==
  /\ obs.last = "authentication" => (call.pc = "recv" /\ ret.kind = "none")
  /\ (call.pc = "idle" /\ obs.authFailed /\ ~obs.others) =>
       /\ ret.kind = "err" /\ ret.err = "i/o timeout"
       /\ call.deadlineIsSet /\ now >= call.deadline

AuthenticatedReject ==
  /\ []AuthenticatedRejectSafe
  /\ (call.pc = "recv" /\ call.deadlineIsSet /\ obs.authFailed) ~> (call.pc = "idle")

RejectedUntilDeadline ==
  /\ call.pc = "idle"
  /\ call.authKey
  /\ obs.authFailed
  /\ ~obs.others
  /\ ret.err = "i/o timeout"

\* C13: after a call of MeasureClockOffsetSCION the memory holds this round's
\* reference, client transmit time, client receive time and the response's
\* server receive time when the call returned success with InterleavedMode
\* on, and what it held before the call otherwise; during the call it is
\* what it was before.
MemoryUpdate ==
  /\ call.pc = "recv" => c.prev = obs.prev
  /\ (call.pc = "idle" /\ ret.kind # "none") =>
       c.prev = IF ret.kind = "ok" /\ c.InterleavedMode
                THEN [reference |-> call.reference,
                      cTxTime |-> call.cTxTime1 + NtpEpochOffset,
                      cRxTime |-> ret.cRxTime,
                      sRxTime |-> ret.ntpresp.ReceiveTime]
                ELSE obs.prev

InterleavedRoundRemembered ==
  /\ call.pc = "idle"
  /\ ret.kind = "ok"
  /\ ret.interleaved
  /\ MemoryUsable
  /\ ret.cRxTime = obs.accepted.at + NtpEpochOffset
  /\ c.prev.cRxTime # ret.t[4] + NtpEpochOffset
  /\ c.prev.cTxTime # ret.t[1] + NtpEpochOffset

\* C14: in a call with a deadline, an unexpected packet (flags, layers,
\* addresses, undecodable payload, origin mismatch) handled before the
\* deadline does not end the call: the call returns such an error only once
\* the deadline has passed, and returns success from the server's reply when
\* that is read.
CrossedTraffic ==
  call.deadlineIsSet =>
    /\ (call.pc = "idle" /\ ret.kind = "err" /\ ret.err \in AnomalyErrors) =>
         now >= call.deadline
    /\ obs.crossed => obs.last # "none"
    /\ obs.validRx =>
         /\ ret.kind = "ok"
         /\ IsValidReply(obs.accepted.pkt)
         /\ ret.ntpresp.OriginTime = call.ntpreq.TransmitTime

ReplyAfterCrossedTraffic ==
  /\ call.deadlineIsSet
  /\ obs.crossed
  /\ obs.validRx
  /\ ret.kind = "ok"
  /\ now < call.deadline

\* the last decoded layer of a datagram
LastLayer(pkt) == pkt.layers[Len(pkt.layers)]

\* C15: success is returned only from a datagram from the remote IA and
\* host to the local IA and host, hosts compared after folding 4-in-6 to
\* four bytes, whose last decoded layer is SCION-UDP.
ResponseOrigin ==
  ret.kind = "ok" =>
    LET pkt == obs.accepted.pkt
    IN /\ pkt.srcIA = call.remote.ia
       /\ Unmap(pkt.srcAddr) = Unmap(call.remote.host)
       /\ pkt.dstIA = localAddr.ia
       /\ Unmap(pkt.dstAddr) = Unmap(localAddr.host)
       /\ Len(pkt.layers) >= 2
       /\ LastLayer(pkt) = "SCIONUDP"

FoldedSourceAccepted ==
  /\ ret.kind = "ok"
  /\ obs.accepted.pkt.srcAddr = IPv4In6(call.remote.host.ip)
  /\ call.remote.host.w = 4

\* C16: every call that returns success used timestamps with t0 <= t3 and
\* t1 <= t2; a response sent before it was received yields no offset.
TimestampSanity ==
  ret.kind = "ok" => (ret.t[1] <= ret.t[4] /\ ret.t[2] <= ret.t[3])

\* what C19 asks of the states: success comes from a datagram read before
\* the deadline, and a call that ran into the deadline returned the error
DeadlineBoundedSafe ==
  call.deadlineIsSet =>
    /\ ret.kind = "ok" => obs.accepted.at < call.deadline
    /\ (call.pc = "idle" /\ obs.last = "i/o timeout") =>
         (ret.kind = "err" /\ ret.err = "i/o timeout")

\* once the deadline has passed the call does nothing but return an error
DeadlineBoundedStep ==
  (call.pc = "recv" /\ call.deadlineIsSet /\ now >= call.deadline /\ call' # call) =>
    (call'.pc = "idle" /\ ret'.kind = "err")

\* C19: a call made with a deadline eventually returns, whatever datagrams
\* and socket errors occur; no datagram is read once the deadline has passed,
\* and the call then returns the error and not success.
DeadlineBounded ==
  /\ []DeadlineBoundedSafe
  /\ [][DeadlineBoundedStep]_vars
  /\ (call.pc = "recv" /\ call.deadlineIsSet) ~> (call.pc = "idle")

DeadlineReached ==
  /\ call.pc = "idle"
  /\ call.deadlineIsSet
  /\ obs.crossed
  /\ obs.last = "i/o timeout"
  /\ ret.err = "i/o timeout"
  /\ now >= call.deadline

\* C20: a response is classified as interleaved only when this call's request
\* carried the previous round's timestamps; after a basic request (memory
\* absent, all zero, stale or of another server) none is.
InterleavedNeedsInterleavedRequest ==
  (ret.kind = "ok" /\ ret.interleaved) => MemoryUsable

\* C21: a client with a DRKey fetcher returns success only from a response
\* whose Authenticator option (server SPI, CMAC algorithm) was verified
\* against the fetched key: none without an E2E extension, without the
\* option, with another SPI or algorithm, or in a call whose key fetch failed.
AuthenticationEnforced ==
  (c.DRKeyFetcher /\ ret.kind = "ok") =>
    /\ call.authKey
    /\ ret.authenticated
    /\ "EndToEndExtn" \in {obs.accepted.pkt.layers[i] : i \in 1..Len(obs.accepted.pkt.layers)}
    /\ obs.accepted.pkt.auth.present
    /\ obs.accepted.pkt.auth.spi = "server"
    /\ obs.accepted.pkt.auth.algoOk
    /\ obs.accepted.pkt.auth.macOk

====
